---- MODULE Spec2Model ----
(***************************************************************************)
(* Backtracking timetable scheduler of betterTimetable:                    *)
(* filterCourseList / scheduleUnits / scheduleActivities (closure variant) *)
(* and the helpers of app/generate/algorithms/recursiveFunctions.tsx.      *)
(* The recursion is modelled with an explicit stack of scheduleActivities  *)
(* frames; one action per call, candidate trial or return.                 *)
(***************************************************************************)
EXTENDS Integers, Sequences, FiniteSets, TLC

\* ---------------------------------------------------------------- bounds
MaxUnits == 2
MaxSessions == 3
MaxCalls == 2

\* ------------------------------------------------------------ data model
\* Keys of the CourseTimes literal built by filterCourseList.
WeekDays == {"MON", "TUE", "WED", "THU", "FRI"}

\* Unit codes of the course list, in Object.entries order.
UnitCodeOf == <<"IFB101", "IFB102", "IFB103", "IFB104", "IFB105">>

UnitNameOf(code) == <<"name", code>>

\* One side of a time range after split(" - "): digits ':' digits suffix.
\* A suffix of "" stands for a text without am/pm, which the pattern of
\* convertTo24Hour does not match.
Tok(h, m, mod) == [hour |-> h, minute |-> m, modifier |-> mod]

TimeRange(s, e) == [start |-> s, end |-> e]

\* "9:00am - 10:00am", "10:00am - 11:00am", "9:00 - 10:00am"
Nine2Ten == TimeRange(Tok(9, 0, "am"), Tok(10, 0, "am"))
Ten2Eleven == TimeRange(Tok(10, 0, "am"), Tok(11, 0, "am"))
MalformedTime == TimeRange(Tok(9, 0, ""), Tok(10, 0, "am"))

Kind(act, day, time) == [activity |-> act, day |-> day, time |-> time]

\* The sessions an input may offer (activity tag, day tag, time text).
CourseKinds ==
  { Kind("LEC", "MON", Nine2Ten),
    Kind("LEC", "MON", Ten2Eleven),
    Kind("TUT", "MON", Nine2Ten),
    Kind("TUT", "TUE", Nine2Ten),
    Kind("TUT", "MON", MalformedTime),
    Kind("LEC", "SAT", Nine2Ten) }

\* interface Course (the fields the scheduler reads or copies)
Course(id, code, kind) ==
  [id |-> id, unitCode |-> code, activity |-> kind.activity,
   day |-> kind.day, time |-> kind.time]

\* ------------------------------------------------------- time conversion
NaN == -1

ToLowerCase(mod) ==
  CASE mod = "AM" -> "am"
    [] mod = "PM" -> "pm"
    [] OTHER -> mod

\* /^(\d{1,2}):(\d{2})(am|pm)$/i
MatchesTimePattern(tok) ==
  /\ ToLowerCase(tok.modifier) \in {"am", "pm"}
  /\ tok.hour \in 0..99
  /\ tok.minute \in 0..99

\* convertTo24Hour with a defect: 12 is treated like any other hour
convertTo24HourNaive(tok) ==
  IF ~MatchesTimePattern(tok) THEN [ok |-> FALSE, hours |-> 0, minutes |-> 0]
  ELSE [ok |-> TRUE,
        hours |-> IF ToLowerCase(tok.modifier) = "pm"
                  THEN tok.hour + 12 ELSE tok.hour,
        minutes |-> tok.minute]

\* convertTo24Hour: the hours and minutes of the "HH:MM:00" text; ok is
\* FALSE when the pattern does not match and the function throws.
convertTo24Hour(tok) ==
  IF ~MatchesTimePattern(tok) THEN [ok |-> FALSE, hours |-> 0, minutes |-> 0]
  ELSE LET hours ==
             IF ToLowerCase(tok.modifier) = "pm" /\ tok.hour # 12
               THEN tok.hour + 12
             ELSE IF ToLowerCase(tok.modifier) = "am" /\ tok.hour = 12
               THEN 0
             ELSE tok.hour
       IN [ok |-> TRUE, hours |-> hours, minutes |-> tok.minute]

\* new Date(`1970-01-01T${hh}:${mm}:00`): minutes after the reference
\* midnight, or an Invalid Date for an out-of-range field.
DateOf(hm) ==
  IF \/ (hm.hours <= 23 /\ hm.minutes <= 59)
     \/ (hm.hours = 24 /\ hm.minutes = 0)
  THEN hm.hours * 60 + hm.minutes
  ELSE NaN

\* Date comparison: false whenever a side is an Invalid Date.
DateLess(a, b) == a # NaN /\ b # NaN /\ a < b

\* parseCourseTimes / the two conversions of scheduleActivities; the start
\* is converted first, so a malformed start throws before the end is read.
parseCourseTimes(time) ==
  LET s == convertTo24Hour(time.start)
      e == convertTo24Hour(time.end)
  IN IF ~s.ok \/ ~e.ok
     THEN [ok |-> FALSE, startTime |-> NaN, endTime |-> NaN]
     ELSE [ok |-> TRUE, startTime |-> DateOf(s), endTime |-> DateOf(e)]

\* -------------------------------------------------------- conflict check
\* Variants of hasTimeConflict with a defect, used to show that the
\* properties below depend on it.
\* - only the first committed interval of the day is compared
hasTimeConflictFirstOnly(scheduledTimes, startTime, endTime) ==
  IF scheduledTimes = <<>> THEN FALSE
  ELSE /\ DateLess(startTime, Head(scheduledTimes).end)
       /\ DateLess(Head(scheduledTimes).start, endTime)

\* - containment is tested instead of overlap
hasTimeConflictContain(scheduledTimes, startTime, endTime) ==
  \E k \in 1..Len(scheduledTimes) :
    /\ DateLess(startTime, scheduledTimes[k].start)
    /\ DateLess(scheduledTimes[k].end, endTime)

\* - the comparisons are <= and >=
hasTimeConflictInclusive(scheduledTimes, startTime, endTime) ==
  \E k \in 1..Len(scheduledTimes) :
    /\ ~DateLess(scheduledTimes[k].end, startTime)
    /\ ~DateLess(endTime, scheduledTimes[k].start)

\* - only the interval committed last on the day is compared
hasTimeConflictLastOnly(scheduledTimes, startTime, endTime) ==
  IF scheduledTimes = <<>> THEN FALSE
  ELSE /\ DateLess(startTime, scheduledTimes[Len(scheduledTimes)].end)
       /\ DateLess(scheduledTimes[Len(scheduledTimes)].start, endTime)

\* hasTimeConflict: scan the day's committed intervals in order.
RECURSIVE hasTimeConflict(_, _, _)
hasTimeConflict(scheduledTimes, startTime, endTime) ==
  IF scheduledTimes = <<>> THEN FALSE
  ELSE LET scheduled == Head(scheduledTimes)
       IN IF DateLess(startTime, scheduled.end)
             /\ DateLess(scheduled.start, endTime)
          THEN TRUE
          ELSE hasTimeConflict(Tail(scheduledTimes), startTime, endTime)

\* --------------------------------------------------------- preprocessing
\* The reducer of filterCourseList: (groups[course.activity] ||= []).push
AddToGroup(groups, course) ==
  IF \E i \in 1..Len(groups) : groups[i].activityType = course.activity
  THEN LET i == CHOOSE j \in 1..Len(groups) :
                  groups[j].activityType = course.activity
       IN [groups EXCEPT ![i].courses = Append(@, course)]
  ELSE Append(groups,
              [activityType |-> course.activity, courses |-> <<course>>])

RECURSIVE GroupByActivity(_, _)
GroupByActivity(courses, groups) ==
  IF courses = <<>> THEN groups
  ELSE GroupByActivity(Tail(courses), AddToGroup(groups, Head(courses)))

\* One element of the units array built by Object.entries(...).map
MakeUnit(entry) ==
  [unitCode |-> entry.unitCode,
   unitName |-> entry.unitName,
   activities |-> GroupByActivity(entry.courses, <<>>)]

\* activities.reduce((acc, activity) => acc * activity.courses.length, 1)
RECURSIVE OptionCount(_)
OptionCount(activities) ==
  IF activities = <<>> THEN 1
  ELSE Len(Head(activities).courses) * OptionCount(Tail(activities))

\* Comparator of units.sort with a defect: optionsA - optionsB
CompareUnitsAscending(unitA, unitB) ==
  OptionCount(unitA.activities) - OptionCount(unitB.activities)

\* Comparator of units.sort: optionsB - optionsA
CompareUnits(unitA, unitB) ==
  OptionCount(unitB.activities) - OptionCount(unitA.activities)

\* Array.prototype.sort is stable: an element goes behind every element
\* that does not compare greater than it.
RECURSIVE InsertUnit(_, _)
InsertUnit(sorted, unit) ==
  IF sorted = <<>> THEN <<unit>>
  ELSE IF CompareUnits(Head(sorted), unit) > 0
       THEN <<unit>> \o sorted
       ELSE <<Head(sorted)>> \o InsertUnit(Tail(sorted), unit)

RECURSIVE SortUnits(_, _)
SortUnits(rest, sorted) ==
  IF rest = <<>> THEN sorted
  ELSE SortUnits(Tail(rest), InsertUnit(sorted, Head(rest)))

\* Comparator of sortActivitiesByCourseOptions with a defect: the
\* activity with more alternatives goes first
CompareActivitiesDescending(activityA, activityB) ==
  Len(activityB.courses) - Len(activityA.courses)

\* Comparator of sortActivitiesByCourseOptions
CompareActivities(activityA, activityB) ==
  Len(activityA.courses) - Len(activityB.courses)

RECURSIVE InsertActivity(_, _)
InsertActivity(sorted, activity) ==
  IF sorted = <<>> THEN <<activity>>
  ELSE IF CompareActivities(Head(sorted), activity) > 0
       THEN <<activity>> \o sorted
       ELSE <<Head(sorted)>> \o InsertActivity(Tail(sorted), activity)

RECURSIVE SortActivities(_, _)
SortActivities(rest, sorted) ==
  IF rest = <<>> THEN sorted
  ELSE SortActivities(Tail(rest), InsertActivity(sorted, Head(rest)))

sortActivitiesByCourseOptions(activities) == SortActivities(activities, <<>>)

\* ------------------------------------------------------ schedule updates
EmptyTimes == [d \in WeekDays |-> <<>>]

EmptySchedule == [code \in {} |-> <<>>]

\* initializeUnitSchedule with a defect: the schedule is started afresh
\* with the entry of the current unit
initializeUnitScheduleAfresh(currentUnit, schedule) ==
  [code \in {currentUnit.unitCode} |->
     [unitName |-> currentUnit.unitName, courses |-> <<>>]]

\* finalSchedule[currentUnit.unitCode] = { unitName, courses: [] }
initializeUnitSchedule(currentUnit, schedule) ==
  [code \in DOMAIN schedule \cup {currentUnit.unitCode} |->
     IF code = currentUnit.unitCode
     THEN [unitName |-> currentUnit.unitName, courses |-> <<>>]
     ELSE schedule[code]]

\* scheduleCourse, schedule half: finalSchedule[unitCode].courses.push
PushCourse(schedule, unitCode, course) ==
  [schedule EXCEPT ![unitCode].courses = Append(@, course)]

\* scheduleCourse, index half: scheduledTimes.push({start, end, ...})
PushTime(times, day, startTime, endTime, unitCode, activity) ==
  [times EXCEPT ![day] =
     Append(@, [start |-> startTime, end |-> endTime,
                unitCode |-> unitCode, activity |-> activity])]

\* Array.prototype.pop: an empty array stays empty.
Pop(s) == IF s = <<>> THEN s ELSE SubSeq(s, 1, Len(s) - 1)

\* unscheduleCourse with a defect: the session is left in the schedule
PopCourseKeeps(schedule, unitCode) == schedule

\* unscheduleCourse with a defect: the session committed first for the
\* unit is removed instead of the one committed last
PopCourseShift(schedule, unitCode) ==
  [schedule EXCEPT ![unitCode].courses = IF @ = <<>> THEN @ ELSE Tail(@)]

\* unscheduleCourse: finalSchedule[unitCode].courses.pop()
PopCourse(schedule, unitCode) ==
  [schedule EXCEPT ![unitCode].courses = Pop(@)]

\* unscheduleCourse with a defect: shift() instead of pop()
PopTimeShift(times, day) ==
  [times EXCEPT ![day] = IF @ = <<>> THEN @ ELSE Tail(@)]

\* unscheduleCourse with a defect: the interval is left in the index
PopTimeKeeps(times, day) == times

\* unscheduleCourse: scheduledTimes.pop()
PopTime(times, day) == [times EXCEPT ![day] = Pop(@)]

\* ------------------------------------------------------------------ state
VARIABLES
  courseList,            \* the caller's course list (Object.entries order)
  outcomes,              \* what each finished call of filterCourseList gave
  pc,                    \* "idle" between calls, "search" inside one
  units,                 \* the units array of the running call
  scheduledTimesPerDay,  \* Occupied-Time Index of the running call
  finalSchedule,         \* Partial Schedule of the running call
  stack,                 \* scheduleActivities frames, outermost first
  log                    \* history: the pushes and pops of the running call

vars == <<courseList, outcomes, pc, units, scheduledTimesPerDay,
          finalSchedule, stack, log>>

InvalidTimeFormat == "Invalid time format"
NotIterable == "TypeError: undefined is not iterable"

ReturnedSchedule(schedule) ==
  [tag |-> "schedule", value |-> schedule, error |-> ""]
ReturnedNull == [tag |-> "null", value |-> EmptySchedule, error |-> ""]
Thrown(err) == [tag |-> "error", value |-> EmptySchedule, error |-> err]

\* The course lists a caller may pass: up to MaxUnits units holding up to
\* MaxSessions sessions in all, every session one of CourseKinds.
CourseListOf(k, n, kinds, owner) ==
  [i \in 1..k |->
     [unitCode |-> UnitCodeOf[i],
      unitName |-> UnitNameOf(UnitCodeOf[i]),
      courses |->
        LET all == [j \in 1..n |-> Course(j, UnitCodeOf[owner[j]], kinds[j])]
        IN SelectSeq(all, LAMBDA c : c.unitCode = UnitCodeOf[i])]]

\* The state before the first call, for course lists over the given kinds.
InitOver(kindSet) ==
  /\ \E k \in 0..MaxUnits, n \in 0..MaxSessions :
       \E kinds \in [1..n -> kindSet], owner \in [1..n -> 1..k] :
         /\ \A j \in 1..n : j > 1 => owner[j - 1] <= owner[j]
         /\ courseList = CourseListOf(k, n, kinds, owner)
  /\ outcomes = <<>>
  /\ pc = "idle"
  /\ units = <<>>
  /\ scheduledTimesPerDay = EmptyTimes
  /\ finalSchedule = EmptySchedule
  /\ stack = <<>>
  /\ log = <<>>

Init == InitOver(CourseKinds)

\* The kinds of the fair specification: one slot offered as a lecture and
\* as a tutorial, a malformed time and a day outside the index.
FairKinds ==
  { Kind("LEC", "MON", Nine2Ten),
    Kind("TUT", "MON", Nine2Ten),
    Kind("TUT", "MON", MalformedTime),
    Kind("LEC", "SAT", Nine2Ten) }

FairInit == InitOver(FairKinds)

\* Well-formed 12-hour texts: every hour from 1 to 12, both suffixes, the
\* first, a middle and the last minute of the hour.
ClockHours == 1..12
ClockMinutes == {0, 30, 59}
ClockTexts ==
  { Tok(h, m, mod) : h \in ClockHours, m \in ClockMinutes, mod \in {"am", "pm"} }

\* The state before the call for a course list of one unit with one
\* session, a Monday lecture whose time range is made of two well-formed
\* texts: the conversion is applied to both when the session is tried.
ClockInit ==
  /\ \E s \in ClockTexts, e \in ClockTexts :
       courseList = CourseListOf(1, 1,
                                 <<Kind("LEC", "MON", TimeRange(s, e))>>,
                                 <<1>>)
  /\ outcomes = <<>>
  /\ pc = "idle"
  /\ units = <<>>
  /\ scheduledTimesPerDay = EmptyTimes
  /\ finalSchedule = EmptySchedule
  /\ stack = <<>>
  /\ log = <<>>

\* What the history records: the two pushes made for a candidate under a
\* unit code, and the two pops made after the call that followed the
\* pushes returned false.
Committed(unitCode, course) ==
  [op |-> "commit", unitCode |-> unitCode, course |-> course]

Uncommitted(unitCode, course) ==
  [op |-> "uncommit", unitCode |-> unitCode, course |-> course]

\* ------------------------------------------- the module-level functions
\* scheduleUnits and scheduleActivities of recursiveFunctions.tsx, which
\* get units, scheduledTimesPerDay and finalSchedule as arguments and
\* mutate them.  A run holds those three objects, the history of pushes
\* and pops, and how the call ended: "true", "false" or "throw" with the
\* error.
RunOn(unitList) ==
  [units |-> unitList,
   scheduledTimesPerDay |-> EmptyTimes,
   finalSchedule |-> EmptySchedule,
   log |-> <<>>,
   result |-> "false",
   error |-> ""]

\* scheduleCourse: the two pushes
scheduleCourse(unitCode, course, startTime, endTime, run) ==
  [run EXCEPT
     !.finalSchedule = PushCourse(@, unitCode, course),
     !.scheduledTimesPerDay =
        PushTime(@, course.day, startTime, endTime, unitCode, course.activity),
     !.log = Append(@, Committed(unitCode, course))]

\* unscheduleCourse with a defect: only the session is popped
unscheduleCourseSessionOnly(unitCode, course, run) ==
  [run EXCEPT
     !.finalSchedule = PopCourse(@, unitCode),
     !.log = Append(@, Uncommitted(unitCode, course))]

\* unscheduleCourse: the two pops; scheduledTimes is the list of the
\* candidate's day
unscheduleCourse(unitCode, course, run) ==
  [run EXCEPT
     !.finalSchedule = PopCourse(@, unitCode),
     !.scheduledTimesPerDay = PopTime(@, course.day),
     !.log = Append(@, Uncommitted(unitCode, course))]

RECURSIVE scheduleUnits(_, _)
RECURSIVE scheduleActivities(_, _, _)
RECURSIVE ForEachCourse(_, _, _, _)

\* scheduleUnits(unitIndex, units, scheduledTimesPerDay, finalSchedule),
\* indices counted from 1
scheduleUnits(unitIndex, run) ==
  IF unitIndex > Len(run.units) THEN [run EXCEPT !.result = "true"]
  ELSE scheduleActivities(
         1, unitIndex,
         [run EXCEPT
            !.finalSchedule = initializeUnitSchedule(run.units[unitIndex], @),
            !.units[unitIndex].activities = sortActivitiesByCourseOptions(@)])

\* scheduleActivities(activityIndex, currentUnit, units, unitIndex, ...);
\* currentUnit is units[unitIndex]
scheduleActivities(activityIndex, unitIndex, run) ==
  IF activityIndex > Len(run.units[unitIndex].activities)
  THEN scheduleUnits(unitIndex + 1, run)
  ELSE ForEachCourse(1, activityIndex, unitIndex, run)

\* The loop `for (const course of activity.courses)` from the candidate at
\* courseIndex on, and the `return false` behind it
ForEachCourse(courseIndex, activityIndex, unitIndex, run) ==
  LET currentUnit == run.units[unitIndex]
      activity == currentUnit.activities[activityIndex]
  IN IF courseIndex > Len(activity.courses)
     THEN [run EXCEPT !.result = "false"]
     ELSE
       LET course == activity.courses[courseIndex]
           parsed == parseCourseTimes(course.time)
       IN IF ~parsed.ok
          THEN [run EXCEPT !.result = "throw", !.error = InvalidTimeFormat]
          ELSE IF course.day \notin DOMAIN run.scheduledTimesPerDay
          THEN [run EXCEPT !.result = "throw", !.error = NotIterable]
          ELSE IF hasTimeConflict(run.scheduledTimesPerDay[course.day],
                                  parsed.startTime, parsed.endTime)
          THEN ForEachCourse(courseIndex + 1, activityIndex, unitIndex, run)
          ELSE
            LET returned ==
                  scheduleActivities(
                    activityIndex + 1, unitIndex,
                    scheduleCourse(currentUnit.unitCode, course,
                                   parsed.startTime, parsed.endTime, run))
            IN IF returned.result # "false" THEN returned
               ELSE ForEachCourse(
                      courseIndex + 1, activityIndex, unitIndex,
                      unscheduleCourse(currentUnit.unitCode, course, returned))

\* ---------------------------------------------------------------- frames
\* A frame of scheduleActivities: the unit and the activity it was called
\* for and the position of its loop.  The field tried is history, not a
\* local of the code: it keeps the schedule and the index as they were
\* when the frame last found a candidate free of conflict and was about
\* to commit it.
NothingTried == [schedule |-> EmptySchedule, times |-> EmptyTimes]

Frame(u, a, c) ==
  [unitIndex |-> u, activityIndex |-> a, courseIndex |-> c,
   tried |-> NothingTried]

Top == stack[Len(stack)]

ActivitiesOf(frame) == units[frame.unitIndex].activities

\* activityIndex >= currentUnit.activities.length
AtBaseCase(frame) == frame.activityIndex > Len(ActivitiesOf(frame))

CandidatesOf(frame) == ActivitiesOf(frame)[frame.activityIndex].courses

\* the for-of loop of the frame has no candidate left
LoopDone(frame) == frame.courseIndex > Len(CandidatesOf(frame))

\* the loop with a defect: candidates are visited from the last one
CandidateOfReversed(frame) ==
  CandidatesOf(frame)[Len(CandidatesOf(frame)) + 1 - frame.courseIndex]

CandidateOf(frame) == CandidatesOf(frame)[frame.courseIndex]

\* ---------------------------------------------------------------- actions
\* filterCourseList with a defect: the index of the previous call is
\* reused
FilterCourseListStaleIndex ==
  /\ pc = "idle"
  /\ units' = SortUnits([i \in 1..Len(courseList) |-> MakeUnit(courseList[i])],
                        <<>>)
  /\ finalSchedule' = EmptySchedule
  /\ stack' = <<>>
  /\ pc' = "search"
  /\ log' = <<>>
  /\ UNCHANGED <<courseList, outcomes, scheduledTimesPerDay>>

\* filterCourseList up to the call of scheduleUnits(0, ...)
FilterCourseList ==
  /\ pc = "idle"
  /\ units' = SortUnits([i \in 1..Len(courseList) |-> MakeUnit(courseList[i])],
                        <<>>)
  /\ scheduledTimesPerDay' = EmptyTimes
  /\ finalSchedule' = EmptySchedule
  /\ stack' = <<>>
  /\ pc' = "search"
  /\ log' = <<>>
  /\ UNCHANGED <<courseList, outcomes>>

\* The caller's first call.
FirstCall ==
  /\ outcomes = <<>>
  /\ FilterCourseList

\* The caller calls again, with the same course list.
CallAgain ==
  /\ outcomes # <<>>
  /\ Len(outcomes) < MaxCalls
  /\ FilterCourseList

\* The unit index the next scheduleUnits call receives.
NextUnitIndex == IF stack = <<>> THEN 1 ELSE Top.unitIndex + 1

CallsScheduleUnits ==
  /\ pc = "search"
  /\ IF stack = <<>> THEN TRUE ELSE AtBaseCase(Top)

\* scheduleUnits past its base case: initialise the entry, sort the
\* activities in place, call scheduleActivities(0).
ScheduleUnits ==
  /\ CallsScheduleUnits
  /\ NextUnitIndex <= Len(units)
  /\ LET currentUnit == units[NextUnitIndex]
     IN /\ finalSchedule' = initializeUnitSchedule(currentUnit, finalSchedule)
        /\ units' = [units EXCEPT ![NextUnitIndex].activities =
                                   sortActivitiesByCourseOptions(@)]
        /\ stack' = Append(stack, Frame(NextUnitIndex, 1, 1))
  /\ UNCHANGED <<log, courseList, outcomes, pc, scheduledTimesPerDay>>

\* The return of true with a defect: every pending frame uncommits its
\* candidate on its way out, as it does after a false
ReturnScheduleUnwound ==
  /\ CallsScheduleUnits
  /\ NextUnitIndex > Len(units)
  /\ finalSchedule' = [code \in DOMAIN finalSchedule |->
                         [finalSchedule[code] EXCEPT !.courses = <<>>]]
  /\ scheduledTimesPerDay' = EmptyTimes
  /\ outcomes' = Append(outcomes, ReturnedSchedule(finalSchedule'))
  /\ stack' = <<>>
  /\ pc' = "idle"
  /\ UNCHANGED <<log, courseList, units>>

\* The return of filterCourseList with a defect: a schedule without
\* entries is reported as null
ReturnScheduleNullWhenEmpty ==
  /\ CallsScheduleUnits
  /\ NextUnitIndex > Len(units)
  /\ outcomes' = Append(outcomes,
                        IF DOMAIN finalSchedule = {} THEN ReturnedNull
                        ELSE ReturnedSchedule(finalSchedule))
  /\ stack' = <<>>
  /\ pc' = "idle"
  /\ UNCHANGED <<log, courseList, units, scheduledTimesPerDay, finalSchedule>>

\* scheduleUnits at its base case returns true, every pending
\* scheduleActivities returns true in turn, and filterCourseList returns
\* finalSchedule.
ReturnSchedule ==
  /\ CallsScheduleUnits
  /\ NextUnitIndex > Len(units)
  /\ outcomes' = Append(outcomes, ReturnedSchedule(finalSchedule))
  /\ stack' = <<>>
  /\ pc' = "idle"
  /\ UNCHANGED <<log, courseList, units, scheduledTimesPerDay, finalSchedule>>

TriesCandidate ==
  /\ pc = "search"
  /\ stack # <<>>
  /\ ~AtBaseCase(Top)
  /\ ~LoopDone(Top)

\* The parse failure with a defect: the frame that made the recursive
\* call catches it and treats it as a false, uncommitting its candidate
\* and going on; without such a frame null is returned
ThrowInvalidTimeCaught ==
  /\ TriesCandidate
  /\ ~parseCourseTimes(CandidateOf(Top).time).ok
  /\ LET rest == Pop(stack)
     IN IF rest = <<>> \/ AtBaseCase(rest[Len(rest)])
        THEN /\ outcomes' = Append(outcomes, ReturnedNull)
             /\ stack' = <<>>
             /\ pc' = "idle"
             /\ UNCHANGED <<scheduledTimesPerDay, finalSchedule, log>>
        ELSE /\ finalSchedule' =
                  PopCourse(finalSchedule,
                            units[rest[Len(rest)].unitIndex].unitCode)
             /\ scheduledTimesPerDay' =
                  PopTime(scheduledTimesPerDay,
                          CandidateOf(rest[Len(rest)]).day)
             /\ stack' = [rest EXCEPT ![Len(rest)].courseIndex = @ + 1]
             /\ log' = Append(log,
                               Uncommitted(
                                 units[rest[Len(rest)].unitIndex].unitCode,
                                 CandidateOf(rest[Len(rest)])))
             /\ UNCHANGED <<outcomes, pc>>
  /\ UNCHANGED <<courseList, units>>

\* The parse failure with a defect: it is caught in the loop and the
\* candidate is treated as a conflicting one
ThrowInvalidTimeSwallowed ==
  /\ TriesCandidate
  /\ ~parseCourseTimes(CandidateOf(Top).time).ok
  /\ stack' = [stack EXCEPT ![Len(stack)].courseIndex = @ + 1]
  /\ UNCHANGED <<log, courseList, outcomes, pc, units, scheduledTimesPerDay,
                 finalSchedule>>

\* convertTo24Hour throws; nothing catches it up to the caller of
\* filterCourseList.
ThrowInvalidTime ==
  /\ TriesCandidate
  /\ ~parseCourseTimes(CandidateOf(Top).time).ok
  /\ outcomes' = Append(outcomes, Thrown(InvalidTimeFormat))
  /\ stack' = <<>>
  /\ pc' = "idle"
  /\ UNCHANGED <<log, courseList, units, scheduledTimesPerDay, finalSchedule>>

\* The missing day with a defect: the lookup creates an empty list for
\* the day and the candidate is committed to it
ThrowNoSuchDayCreatesKey ==
  /\ TriesCandidate
  /\ LET course == CandidateOf(Top)
         parsed == parseCourseTimes(course.time)
         unitCode == units[Top.unitIndex].unitCode
         created == [d \in DOMAIN scheduledTimesPerDay \cup {course.day} |->
                       IF d \in DOMAIN scheduledTimesPerDay
                       THEN scheduledTimesPerDay[d] ELSE <<>>]
     IN /\ parsed.ok
        /\ course.day \notin DOMAIN scheduledTimesPerDay
        /\ finalSchedule' = PushCourse(finalSchedule, unitCode, course)
        /\ scheduledTimesPerDay' =
             PushTime(created, course.day, parsed.startTime,
                      parsed.endTime, unitCode, course.activity)
        /\ stack' = Append([stack EXCEPT ![Len(stack)].tried =
                                [schedule |-> finalSchedule,
                                 times |-> scheduledTimesPerDay]],
                            Frame(Top.unitIndex, Top.activityIndex + 1, 1))
        /\ log' = Append(log, Committed(unitCode, course))
  /\ UNCHANGED <<courseList, outcomes, pc, units>>

\* scheduledTimesPerDay[course.day] is undefined and iterating it throws.
ThrowNoSuchDay ==
  /\ TriesCandidate
  /\ parseCourseTimes(CandidateOf(Top).time).ok
  /\ CandidateOf(Top).day \notin DOMAIN scheduledTimesPerDay
  /\ outcomes' = Append(outcomes, Thrown(NotIterable))
  /\ stack' = <<>>
  /\ pc' = "idle"
  /\ UNCHANGED <<log, courseList, units, scheduledTimesPerDay, finalSchedule>>

\* The conflicting candidate with a defect: the loop does not advance and
\* tries the same candidate again
SkipCandidateStays ==
  /\ TriesCandidate
  /\ LET course == CandidateOf(Top)
         parsed == parseCourseTimes(course.time)
     IN /\ parsed.ok
        /\ course.day \in DOMAIN scheduledTimesPerDay
        /\ hasTimeConflict(scheduledTimesPerDay[course.day],
                           parsed.startTime, parsed.endTime)
  /\ UNCHANGED vars

\* The candidate conflicts: the loop moves to the next candidate.
SkipCandidate ==
  /\ TriesCandidate
  /\ LET course == CandidateOf(Top)
         parsed == parseCourseTimes(course.time)
     IN /\ parsed.ok
        /\ course.day \in DOMAIN scheduledTimesPerDay
        /\ hasTimeConflict(scheduledTimesPerDay[course.day],
                           parsed.startTime, parsed.endTime)
  /\ stack' = [stack EXCEPT ![Len(stack)].courseIndex = @ + 1]
  /\ UNCHANGED <<log, courseList, outcomes, pc, units, scheduledTimesPerDay,
                 finalSchedule>>

\* No conflict: scheduleCourse, then scheduleActivities(activityIndex + 1).
CommitCandidate ==
  /\ TriesCandidate
  /\ LET course == CandidateOf(Top)
         parsed == parseCourseTimes(course.time)
         unitCode == units[Top.unitIndex].unitCode
     IN /\ parsed.ok
        /\ course.day \in DOMAIN scheduledTimesPerDay
        /\ ~hasTimeConflict(scheduledTimesPerDay[course.day],
                            parsed.startTime, parsed.endTime)
        /\ finalSchedule' = PushCourse(finalSchedule, unitCode, course)
        /\ scheduledTimesPerDay' =
             PushTime(scheduledTimesPerDay, course.day, parsed.startTime,
                      parsed.endTime, unitCode, course.activity)
        /\ stack' = Append([stack EXCEPT ![Len(stack)].tried =
                                [schedule |-> finalSchedule,
                                 times |-> scheduledTimesPerDay]],
                            Frame(Top.unitIndex, Top.activityIndex + 1, 1))
        /\ log' = Append(log, Committed(unitCode, course))
  /\ UNCHANGED <<courseList, outcomes, pc, units>>

\* The frames that stay once the top frame has returned false: frames at
\* their base case only pass the false of scheduleUnits on.
RECURSIVE DropReturning(_)
DropReturning(frames) ==
  IF frames = <<>> THEN frames
  ELSE IF AtBaseCase(frames[Len(frames)])
       THEN DropReturning(Pop(frames))
       ELSE frames

Exhausted ==
  /\ pc = "search"
  /\ stack # <<>>
  /\ ~AtBaseCase(Top)
  /\ LoopDone(Top)

\* Backtracking with a defect: the frame that gets the false returns
\* false itself instead of trying its next candidate
BacktrackGivesUp ==
  /\ Exhausted
  /\ DropReturning(Pop(stack)) # <<>>
  /\ outcomes' = Append(outcomes, ReturnedNull)
  /\ stack' = <<>>
  /\ pc' = "idle"
  /\ UNCHANGED <<log, courseList, units, scheduledTimesPerDay, finalSchedule>>

\* The loop ends and scheduleActivities returns false to a frame that
\* committed a candidate: unscheduleCourse, then the next candidate.
Backtrack ==
  /\ Exhausted
  /\ LET rest == DropReturning(Pop(stack))
     IN /\ rest # <<>>
        /\ LET caller == rest[Len(rest)]
               course == CandidateOf(caller)
               unitCode == units[caller.unitIndex].unitCode
           IN /\ finalSchedule' = PopCourse(finalSchedule, unitCode)
              /\ scheduledTimesPerDay' =
                   PopTime(scheduledTimesPerDay, course.day)
              /\ stack' = [rest EXCEPT ![Len(rest)].courseIndex = @ + 1]
              /\ log' = Append(log, Uncommitted(unitCode, course))
  /\ UNCHANGED <<courseList, outcomes, pc, units>>

\* The false reaches filterCourseList, which returns null.
ReturnNull ==
  /\ Exhausted
  /\ DropReturning(Pop(stack)) = <<>>
  /\ outcomes' = Append(outcomes, ReturnedNull)
  /\ stack' = <<>>
  /\ pc' = "idle"
  /\ UNCHANGED <<log, courseList, units, scheduledTimesPerDay, finalSchedule>>

Next ==
  \/ FirstCall
  \/ ScheduleUnits
  \/ ReturnSchedule
  \/ ThrowInvalidTime
  \/ ThrowNoSuchDay
  \/ SkipCandidate
  \/ CommitCandidate
  \/ Backtrack
  \/ ReturnNull

Spec == Init /\ [][Next]_vars

\* The steps of a call on a single session that parses and lies on a day
\* of the index.
ClockNext ==
  \/ FirstCall
  \/ ScheduleUnits
  \/ CommitCandidate
  \/ ReturnSchedule

ClockSpec == ClockInit /\ [][ClockNext]_vars

\* The caller repeats the call on the same input.
NextRepeated ==
  \/ Next
  \/ CallAgain

RepeatedSpec == Init /\ [][NextRepeated]_vars

\* The search is one synchronous call: a step that can be taken is taken.
FairSpec == FairInit /\ [][Next]_vars /\ WF_vars(Next)

\* ------------------------------------------------- vocabulary of the claims
\* A call of filterCourseList has ended and no other is running.
Finished == pc = "idle" /\ outcomes # <<>>

\* What the call that ended last gave its caller.
Outcome == outcomes[Len(outcomes)]

\* Every session of the input.
AllCourses ==
  UNION { { courseList[i].courses[j] : j \in 1..Len(courseList[i].courses) }
          : i \in 1..Len(courseList) }

\* The time text parses and the day is a key of the index.
Parses(course) == parseCourseTimes(course.time).ok

OnWeekDay(course) == course.day \in WeekDays

AllWellFormed == \A c \in AllCourses : Parses(c) /\ OnWeekDay(c)

\* s1 < e2 AND e1 > s2 on the parsed intervals of two sessions.
IntervalsConflict(c1, c2) ==
  LET p1 == parseCourseTimes(c1.time)
      p2 == parseCourseTimes(c2.time)
  IN /\ p1.ok /\ p2.ok
     /\ p1.startTime # NaN /\ p1.endTime # NaN
     /\ p2.startTime # NaN /\ p2.endTime # NaN
     /\ p1.startTime < p2.endTime
     /\ p1.endTime > p2.startTime

\* Two different sessions of one day whose intervals conflict.
PairConflict(c1, c2) ==
  /\ c1.id # c2.id
  /\ c1.day = c2.day
  /\ IntervalsConflict(c1, c2)

\* The sessions a schedule holds, over all its units.
SessionsOf(schedule) ==
  UNION { { schedule[code].courses[i] : i \in 1..Len(schedule[code].courses) }
          : code \in DOMAIN schedule }

\* The activity tags occurring among the sessions of an input unit.
TagsOf(entry) == { entry.courses[j].activity : j \in 1..Len(entry.courses) }

\* A choice of one session per activity for every unit of the input.
IsFullChoice(S) ==
  \A c \in AllCourses :
    Cardinality({ d \in S : d.unitCode = c.unitCode
                            /\ d.activity = c.activity }) = 1

FullChoices == { S \in SUBSET AllCourses : IsFullChoice(S) }

ConflictFree(S) == \A c1 \in S, c2 \in S : ~PairConflict(c1, c2)

SomeChoiceConflictFree == \E S \in FullChoices : ConflictFree(S)

\* ------------------------------------------------------------------ C1
\* C1 (soundness): in every schedule filterCourseList returns, no two
\* distinct sessions of the same day have parsed intervals with
\* s1 < e2 and e1 > s2.
C1_Soundness ==
  (Finished /\ Outcome.tag = "schedule") =>
    \A c1 \in SessionsOf(Outcome.value), c2 \in SessionsOf(Outcome.value) :
      (c1.id # c2.id /\ c1.day = c2.day) => ~IntervalsConflict(c1, c2)

\* A returned schedule holding two sessions of one day, of which one was
\* offered next to an alternative that conflicts with the other.
C1_Witness ==
  /\ Finished
  /\ Outcome.tag = "schedule"
  /\ \E c1 \in SessionsOf(Outcome.value), c2 \in SessionsOf(Outcome.value) :
       /\ c1.id # c2.id
       /\ c1.day = c2.day
       /\ \E c3 \in AllCourses : c3.unitCode = c2.unitCode
                                 /\ c3.activity = c2.activity
                                 /\ PairConflict(c1, c3)

\* ------------------------------------------------------------------ C2
\* C2 (completeness of assignment): a returned schedule has an entry for
\* every input unit and for no other key; the entry holds exactly one
\* session per activity tag of the unit, each one of that unit's input
\* sessions, and nothing else.
C2_Assignment ==
  (Finished /\ Outcome.tag = "schedule") =>
    /\ DOMAIN Outcome.value =
         { courseList[i].unitCode : i \in 1..Len(courseList) }
    /\ \A i \in 1..Len(courseList) :
         LET entry == courseList[i]
             chosen == Outcome.value[entry.unitCode].courses
         IN /\ \A tag \in TagsOf(entry) :
                 Cardinality({ k \in 1..Len(chosen) :
                               chosen[k].activity = tag }) = 1
            /\ \A k \in 1..Len(chosen) :
                 \E j \in 1..Len(entry.courses) : chosen[k] = entry.courses[j]
            /\ Len(chosen) = Cardinality(TagsOf(entry))

\* A returned schedule for a unit with two activities, in which the
\* activity offering two sessions got its second one.
C2_Witness ==
  /\ Finished
  /\ Outcome.tag = "schedule"
  /\ \E i \in 1..Len(units) :
       /\ Len(units[i].activities) = 2
       /\ Len(units[i].activities[2].courses) = 2
       /\ Outcome.value[units[i].unitCode].courses[2]
            = units[i].activities[2].courses[2]

\* ------------------------------------------------------------------ C3
\* C3 (search completeness): when every session parses and is on a
\* weekday and some choice of one session per activity is pairwise
\* conflict-free, the call returns a schedule.
C3_SearchComplete ==
  (Finished /\ AllWellFormed /\ SomeChoiceConflictFree) =>
    Outcome.tag = "schedule"

\* A schedule in which a unit placed first does not hold its first
\* candidate: that candidate was committed on an empty index and later
\* revised because it blocked a later unit.
C3_Witness ==
  /\ Finished
  /\ AllWellFormed
  /\ Outcome.tag = "schedule"
  /\ Len(units) = 2
  /\ Len(units[1].activities) = 1
  /\ Outcome.value[units[1].unitCode].courses[1]
       # units[1].activities[1].courses[1]

\* ------------------------------------------------------------------ C4
\* C4 as stated: when no choice of one session per activity is pairwise
\* conflict-free, the call returns null.
C4_AsStated ==
  (Finished /\ ~SomeChoiceConflictFree) => Outcome.tag = "null"

\* C4 (infeasibility verdict, amended): when no choice of one session per
\* activity is pairwise conflict-free the call never returns a schedule,
\* and it returns null when every session parses and is on a weekday.
C4_Infeasible ==
  (Finished /\ ~SomeChoiceConflictFree) =>
    /\ Outcome.tag # "schedule"
    /\ AllWellFormed => Outcome.tag = "null"

\* The forced conflict: one unit, two single-session activities at the
\* same day and time, and null returned.
C4_Witness ==
  /\ Finished
  /\ Outcome.tag = "null"
  /\ Len(courseList) = 1
  /\ Len(courseList[1].courses) = 2
  /\ PairConflict(courseList[1].courses[1], courseList[1].courses[2])
  /\ courseList[1].courses[1].activity # courseList[1].courses[2].activity

\* ------------------------------------------------------------------ C5
\* C5 (termination): every call of filterCourseList ends, in a returned
\* schedule, in null or in a thrown error; the search never runs forever.
C5_Terminates ==
  <>(/\ pc = "idle"
     /\ Len(outcomes) = 1
     /\ outcomes[1].tag \in {"schedule", "null", "error"})

\* A search over two units that ended in null after it had committed and
\* withdrawn sessions of the first unit.
C5_Witness ==
  /\ Finished
  /\ Outcome.tag = "null"
  /\ Len(units) = 2
  /\ \A u \in 1..2 : Len(units[u].activities) >= 1
  /\ Len(units[1].activities[1].courses) >= 2
  /\ DOMAIN finalSchedule = { units[1].unitCode, units[2].unitCode }

\* ------------------------------------------------------------------ C6
\* C6 (determinism): all calls made with the same course list end in the
\* same outcome: the same schedule, null every time, or the same error.
C6_Deterministic ==
  \A i \in 1..Len(outcomes), j \in 1..Len(outcomes) :
    outcomes[i] = outcomes[j]

\* Two finished calls that both returned a schedule found after a conflict
\* on a day already holding a session.
C6_Witness ==
  /\ Len(outcomes) >= 2
  /\ outcomes[1].tag = "schedule"
  /\ outcomes[2].tag = "schedule"
  /\ \E c1 \in SessionsOf(outcomes[2].value), c3 \in AllCourses :
       c3 \notin SessionsOf(outcomes[2].value) /\ PairConflict(c1, c3)

\* ------------------------------------------------------------------ C7
\* s1 < e2 AND e1 > s2 for a candidate interval and a committed interval
Overlaps(startTime, endTime, scheduled) ==
  /\ startTime # NaN /\ endTime # NaN
  /\ scheduled.start # NaN /\ scheduled.end # NaN
  /\ startTime < scheduled.end
  /\ endTime > scheduled.start

\* C7 (conflict predicate): a candidate that parses and lies on a weekday
\* is rejected, leaving the index as it is, exactly when some interval
\* committed on its day has s1 < e2 and e1 > s2; otherwise its interval is
\* pushed on that day.  A candidate touching a committed interval at an
\* endpoint is therefore pushed.
C7_ConflictPredicate ==
  [][ (/\ TriesCandidate
       /\ Parses(CandidateOf(Top))
       /\ OnWeekDay(CandidateOf(Top)))
      =>
      LET course == CandidateOf(Top)
          parsed == parseCourseTimes(course.time)
          committed == scheduledTimesPerDay[course.day]
          conflict == \E k \in 1..Len(committed) :
                        Overlaps(parsed.startTime, parsed.endTime,
                                 committed[k])
      IN /\ conflict => scheduledTimesPerDay' = scheduledTimesPerDay
         /\ ~conflict =>
              /\ Len(scheduledTimesPerDay'[course.day]) = Len(committed) + 1
              /\ scheduledTimesPerDay'[course.day][Len(committed) + 1].start
                   = parsed.startTime
              /\ scheduledTimesPerDay'[course.day][Len(committed) + 1].end
                   = parsed.endTime ]_vars

\* Two intervals committed on one day, one starting when the other ends.
C7_Witness ==
  \E d \in WeekDays :
    \E i \in 1..Len(scheduledTimesPerDay[d]),
       j \in 1..Len(scheduledTimesPerDay[d]) :
      /\ i # j
      /\ scheduledTimesPerDay[d][i].end = scheduledTimesPerDay[d][j].start

\* ------------------------------------------------------------------ C8
\* C8 as stated: every call on an input that holds a session with a
\* malformed time text ends in the InvalidTimeFormat error.
C8_AsStated ==
  (Finished /\ \E c \in AllCourses : ~Parses(c)) =>
    Outcome = Thrown(InvalidTimeFormat)

\* C8 (malformed time, amended): when the search tries a candidate whose
\* time text is malformed, the call ends at once in the InvalidTimeFormat
\* error, not in null and not in a schedule.
C8_MalformedTried ==
  [][ (TriesCandidate /\ ~Parses(CandidateOf(Top)))
      => (/\ pc' = "idle"
          /\ outcomes' = Append(outcomes, Thrown(InvalidTimeFormat))) ]_vars

\* A call ended by the error after it had already committed a session.
C8_Witness ==
  /\ Finished
  /\ Outcome = Thrown(InvalidTimeFormat)
  /\ \E d \in WeekDays : scheduledTimesPerDay[d] # <<>>

\* ------------------------------------------------------------------ C9
\* C9 (null is not an empty success): a call on a course list without
\* units returns a schedule, the empty mapping, and not null; null is
\* returned only for an input that has a unit with a session; and every
\* returned schedule, the empty one included, differs from the null marker.
C9_EmptySuccess ==
  Finished =>
    /\ courseList = <<>> => Outcome = ReturnedSchedule(EmptySchedule)
    /\ Outcome.tag = "null" => AllCourses # {}
    /\ Outcome.tag = "schedule" => Outcome # ReturnedNull

\* The call on the empty course list has returned.
C9_Witness ==
  /\ Finished
  /\ courseList = <<>>
  /\ Outcome.tag = "schedule"
  /\ DOMAIN Outcome.value = {}

\* ----------------------------------------------------------------- C10
\* The decision points (unit index, activity index) in search order.
RECURSIVE DecisionPointsFrom(_)
DecisionPointsFrom(u) ==
  IF u > Len(units) THEN <<>>
  ELSE [a \in 1..Len(units[u].activities) |-> <<u, a>>]
         \o DecisionPointsFrom(u + 1)

DecisionPoints == DecisionPointsFrom(1)

OptionsAt(k) ==
  units[DecisionPoints[k][1]].activities[DecisionPoints[k][2]].courses

\* One candidate index per decision point.
IndexVectors ==
  { v \in [1..Len(DecisionPoints) -> 1..MaxSessions] :
      \A k \in 1..Len(DecisionPoints) : v[k] <= Len(OptionsAt(k)) }

VectorConflictFree(v) ==
  \A k1 \in 1..Len(DecisionPoints), k2 \in 1..Len(DecisionPoints) :
    ~PairConflict(OptionsAt(k1)[v[k1]], OptionsAt(k2)[v[k2]])

LexLess(v, w) ==
  \E k \in 1..Len(DecisionPoints) :
    /\ v[k] < w[k]
    /\ \A j \in 1..(k - 1) : v[j] = w[j]

\* The schedule holds, per unit and in activity order, the candidates v
\* names.
Picks(schedule, v) ==
  /\ \A u \in 1..Len(units) :
       /\ units[u].unitCode \in DOMAIN schedule
       /\ Len(schedule[units[u].unitCode].courses) = Len(units[u].activities)
  /\ \A k \in 1..Len(DecisionPoints) :
       schedule[units[DecisionPoints[k][1]].unitCode]
         .courses[DecisionPoints[k][2]] = OptionsAt(k)[v[k]]

\* C10 (first feasible assignment): a returned schedule is the conflict-
\* free full assignment whose vector of candidate indices, over the
\* decision points in search order, is lexicographically smallest.
C10_FirstFeasible ==
  (Finished /\ Outcome.tag = "schedule") =>
    \E v \in IndexVectors :
      /\ Picks(Outcome.value, v)
      /\ VectorConflictFree(v)
      /\ \A w \in IndexVectors : LexLess(w, v) => ~VectorConflictFree(w)

\* A returned schedule whose vector is not the smallest one: a smaller
\* vector exists and holds a conflict.
C10_Witness ==
  /\ Finished
  /\ Outcome.tag = "schedule"
  /\ \E v \in IndexVectors :
       /\ Picks(Outcome.value, v)
       /\ \E w \in IndexVectors : LexLess(w, v) /\ ~VectorConflictFree(w)

\* ----------------------------------------------------------------- C11
\* The interval record the index must hold for a session committed under
\* the given unit code.
IntervalOf(code, course) ==
  [start |-> parseCourseTimes(course.time).startTime,
   end |-> parseCourseTimes(course.time).endTime,
   unitCode |-> code,
   activity |-> course.activity]

\* How often the index holds the record r on day d.
IndexedCount(d, r) ==
  Cardinality({ k \in 1..Len(scheduledTimesPerDay[d]) :
                scheduledTimesPerDay[d][k] = r })

\* How often the schedule holds a session of day d whose record is r.
CommittedCount(d, r) ==
  Cardinality({ p \in UNION { { <<code, k>> :
                                 k \in 1..Len(finalSchedule[code].courses) }
                              : code \in DOMAIN finalSchedule } :
                /\ finalSchedule[p[1]].courses[p[2]].day = d
                /\ IntervalOf(p[1], finalSchedule[p[1]].courses[p[2]]) = r })

\* Every record either side could hold.
IntervalRecords ==
  UNION { { scheduledTimesPerDay[d][k] : k \in 1..Len(scheduledTimesPerDay[d]) }
          : d \in WeekDays }
  \cup
  UNION { { IntervalOf(code, finalSchedule[code].courses[k]) :
              k \in 1..Len(finalSchedule[code].courses) }
          : code \in DOMAIN finalSchedule }

\* C11 (index/schedule bijection): in every state the index holds, day by
\* day, exactly the interval records (start, end, unit code, activity tag)
\* of the sessions the schedule holds, as multisets, and every session of
\* the schedule lies on a day of the index.
C11_Bijection ==
  /\ \A d \in WeekDays : \A r \in IntervalRecords :
       IndexedCount(d, r) = CommittedCount(d, r)
  /\ \A c \in SessionsOf(finalSchedule) : c.day \in WeekDays

\* A search state after an uncommit: two sessions of one day are held and
\* the frame on top has moved past its first candidate.
C11_Witness ==
  /\ pc = "search"
  /\ stack # <<>>
  /\ \E f \in 1..Len(stack) : stack[f].courseIndex > 1
  /\ \E d \in WeekDays : Len(scheduledTimesPerDay[d]) = 2

\* ----------------------------------------------------------------- C12
\* C12 (continuous non-overlap): in every state, no two intervals held on
\* the same day of the index satisfy s1 < e2 and e1 > s2.
C12_NoOverlap ==
  \A d \in WeekDays :
    \A i \in 1..Len(scheduledTimesPerDay[d]),
       j \in 1..Len(scheduledTimesPerDay[d]) :
      i # j => ~Overlaps(scheduledTimesPerDay[d][i].start,
                         scheduledTimesPerDay[d][i].end,
                         scheduledTimesPerDay[d][j])

\* The search is inside a unit whose two activities both hold an interval
\* on one day.
C12_Witness ==
  /\ pc = "search"
  /\ \E d \in WeekDays :
       \E i \in 1..Len(scheduledTimesPerDay[d]),
          j \in 1..Len(scheduledTimesPerDay[d]) :
         /\ i # j
         /\ scheduledTimesPerDay[d][i].unitCode
              = scheduledTimesPerDay[d][j].unitCode
         /\ scheduledTimesPerDay[d][i].activity
              # scheduledTimesPerDay[d][j].activity

\* ----------------------------------------------------------------- C13
\* A false is about to be returned to a frame that committed a candidate.
FalseToCommitter == Exhausted /\ DropReturning(Pop(stack)) # <<>>

\* The frame that gets the false.
Committer == DropReturning(Pop(stack))[Len(DropReturning(Pop(stack)))]

\* The two pops take off exactly what was pushed for the candidate of the
\* frame that gets the false: pushing it again on the state after the
\* step gives the state before the step.
PopsUndoPushes ==
  LET course == CandidateOf(Committer)
      parsed == parseCourseTimes(course.time)
      unitCode == units[Committer.unitIndex].unitCode
  IN /\ finalSchedule = PushCourse(finalSchedule', unitCode, course)
     /\ scheduledTimesPerDay =
          PushTime(scheduledTimesPerDay', course.day, parsed.startTime,
                   parsed.endTime, unitCode, course.activity)

\* C13 as the claim states it: after the uncommit both the schedule and
\* the index are exactly what they were before the candidate was tried.
C13_AsStated ==
  [][FalseToCommitter =>
       /\ PopsUndoPushes
       /\ finalSchedule' = Committer.tried.schedule
       /\ scheduledTimesPerDay' = Committer.tried.times]_vars

\* C13 (uncommit undoes commit): when the recursive call made after a
\* commit returns false, the two pops remove exactly the session and the
\* interval pushed for that candidate, from the same unit entry and the
\* same day list; the index is then what it was before the candidate was
\* tried, every unit entry that existed then is what it was, and the only
\* difference is that units entered since keep an entry with an empty
\* session list.
C13_Uncommit ==
  [][FalseToCommitter =>
       /\ PopsUndoPushes
       /\ scheduledTimesPerDay' = Committer.tried.times
       /\ DOMAIN Committer.tried.schedule \subseteq DOMAIN finalSchedule'
       /\ \A code \in DOMAIN finalSchedule' :
            IF code \in DOMAIN Committer.tried.schedule
            THEN finalSchedule'[code] = Committer.tried.schedule[code]
            ELSE finalSchedule'[code].courses = <<>>]_vars

\* The frame on top got a false back and uncommitted, and the schedule
\* has an entry that did not exist when its candidate was tried.
C13_Witness ==
  /\ pc = "search"
  /\ stack # <<>>
  /\ Top.courseIndex > 1
  /\ Top.tried # NothingTried
  /\ scheduledTimesPerDay = Top.tried.times
  /\ DOMAIN finalSchedule # DOMAIN Top.tried.schedule
  /\ \A code \in DOMAIN Top.tried.schedule :
       finalSchedule[code] = Top.tried.schedule[code]

\* ----------------------------------------------------------------- C14
\* C14 (short-circuit on success): at the base case of scheduleUnits the
\* true goes through every pending frame without another candidate being
\* tried, committed or uncommitted: the call ends in that step, no frame
\* stays, and the schedule returned and the index are the ones held at the
\* base case.
C14_ShortCircuit ==
  [][(CallsScheduleUnits /\ NextUnitIndex > Len(units)) =>
       /\ pc' = "idle"
       /\ stack' = <<>>
       /\ outcomes' = Append(outcomes, ReturnedSchedule(finalSchedule))
       /\ UNCHANGED <<finalSchedule, scheduledTimesPerDay>>]_vars

\* A schedule was returned although the activity of a chosen session had
\* a later alternative, which was never tried.
C14_Witness ==
  /\ Finished
  /\ Outcome.tag = "schedule"
  /\ Outcome.value = finalSchedule
  /\ \E u \in 1..Len(units) :
       \E a \in 1..Len(units[u].activities) :
         LET courses == units[u].activities[a].courses
         IN /\ Len(finalSchedule[units[u].unitCode].courses) >= a
            /\ finalSchedule[units[u].unitCode].courses[a]
                 # courses[Len(courses)]

\* ----------------------------------------------------------------- C15
\* C15 (error propagation): when the search parses a candidate whose time
\* text is malformed, that step ends the call with the InvalidTimeFormat
\* error as its outcome: no frame stays to catch it or to try a later
\* candidate, nothing is uncommitted (schedule and index stay as they are
\* at the throw), and the outcome is neither null nor a schedule.
C15_ErrorLeavesSearch ==
  [][(TriesCandidate /\ ~Parses(CandidateOf(Top))) =>
       /\ stack' = <<>>
       /\ pc' = "idle"
       /\ Len(outcomes') = Len(outcomes) + 1
       /\ outcomes'[Len(outcomes')].tag = "error"
       /\ outcomes'[Len(outcomes')].error = InvalidTimeFormat
       /\ UNCHANGED <<finalSchedule, scheduledTimesPerDay>>]_vars

\* The error left a search that held a committed session, inside a
\* recursive call, with a later candidate of the same activity untried.
C15_Witness ==
  /\ Finished
  /\ Outcome = Thrown(InvalidTimeFormat)
  /\ SessionsOf(finalSchedule) # {}
  /\ \E d \in WeekDays : scheduledTimesPerDay[d] # <<>>
  /\ \E u \in 1..Len(units) :
       \E a \in 1..Len(units[u].activities) :
         \E i \in 1..Len(units[u].activities[a].courses) :
           /\ ~Parses(units[u].activities[a].courses[i])
           /\ i < Len(units[u].activities[a].courses)
           /\ units[u].activities[a].courses[i]
                \notin SessionsOf(finalSchedule)

\* ----------------------------------------------------------------- C16
\* The number of sessions of an input unit that carry the tag.
SessionCount(entry, tag) ==
  Cardinality({ j \in 1..Len(entry.courses) : entry.courses[j].activity = tag })

\* The product of the session counts of the tags; 1 for no tag.
RECURSIVE ProductOfCounts(_, _)
ProductOfCounts(entry, tags) ==
  IF tags = {} THEN 1
  ELSE LET tag == CHOOSE t \in tags : TRUE
       IN SessionCount(entry, tag) * ProductOfCounts(entry, tags \ {tag})

\* The option count of an input unit, taken from the input.
OptionsOf(entry) == ProductOfCounts(entry, TagsOf(entry))

\* Where the unit with this code stands in the input.
InputPosition(code) ==
  CHOOSE i \in 1..Len(courseList) : courseList[i].unitCode = code

\* filterCourseList has built and ordered the units of the current input.
UnitsOrdered == pc = "search" \/ Finished

\* C16 (unit ordering): once filterCourseList has ordered the units, they
\* are the input units, each once, in descending order of option count
\* (the product of the session-list lengths of a unit's activities, 1 for
\* a unit without activities), and units of equal option count stand in
\* their input order.
C16_UnitOrder ==
  UnitsOrdered =>
    /\ Len(units) = Len(courseList)
    /\ \A i \in 1..Len(courseList) :
         Cardinality({ k \in 1..Len(units) :
                       units[k].unitCode = courseList[i].unitCode }) = 1
    /\ \A i \in 1..Len(units), j \in 1..Len(units) :
         i < j =>
           LET optionsI == OptionsOf(courseList[InputPosition(units[i].unitCode)])
               optionsJ == OptionsOf(courseList[InputPosition(units[j].unitCode)])
           IN /\ optionsI >= optionsJ
              /\ optionsI = optionsJ =>
                   InputPosition(units[i].unitCode)
                     < InputPosition(units[j].unitCode)

\* The unit given second has more options and was put first, ahead of a
\* unit with a single option.
C16_Witness ==
  /\ UnitsOrdered
  /\ Len(units) >= 2
  /\ InputPosition(units[1].unitCode) > InputPosition(units[2].unitCode)
  /\ OptionsOf(courseList[InputPosition(units[1].unitCode)]) >= 2

\* ----------------------------------------------------------------- C17
\* Where the tag first appears among the sessions of an input unit.
FirstAppearance(entry, tag) ==
  CHOOSE j \in 1..Len(entry.courses) :
    /\ entry.courses[j].activity = tag
    /\ \A k \in 1..(j - 1) : entry.courses[k].activity # tag

\* The unit phase has entered the unit at this index during this call.
Entered(u) == units[u].unitCode \in DOMAIN finalSchedule

\* The activities of the entered unit at index u are those of its input
\* entry, each with its sessions in input order, in ascending order of the
\* number of alternatives, equal numbers in order of first appearance.
ActivitiesAscending(u) ==
  LET entry == courseList[InputPosition(units[u].unitCode)]
      activities == units[u].activities
  IN /\ { activities[a].activityType : a \in 1..Len(activities) }
          = TagsOf(entry)
     /\ Len(activities) = Cardinality(TagsOf(entry))
     /\ \A a \in 1..Len(activities) :
          activities[a].courses =
            SelectSeq(entry.courses,
                      LAMBDA c : c.activity = activities[a].activityType)
     /\ \A a \in 1..Len(activities), b \in 1..Len(activities) :
          a < b =>
            /\ Len(activities[a].courses) <= Len(activities[b].courses)
            /\ Len(activities[a].courses) = Len(activities[b].courses) =>
                 FirstAppearance(entry, activities[a].activityType)
                   < FirstAppearance(entry, activities[b].activityType)

\* The sessions committed for the entered unit at index u follow the
\* order of its activities, and so do its frames on the stack.
VisitedInOrder(u) ==
  /\ \A a \in 1..Len(finalSchedule[units[u].unitCode].courses) :
       finalSchedule[units[u].unitCode].courses[a].activity
         = units[u].activities[a].activityType
  /\ \A f \in 1..Len(stack) :
       stack[f].unitIndex = u =>
         stack[f].activityIndex
           = 1 + Cardinality({ g \in 1..(f - 1) : stack[g].unitIndex = u })

ActivitiesOrdered ==
  UnitsOrdered =>
    \A u \in 1..Len(units) :
      Entered(u) => ActivitiesAscending(u) /\ VisitedInOrder(u)

\* scheduleUnits is about to enter a unit it has entered before.
ReEnters ==
  /\ CallsScheduleUnits
  /\ NextUnitIndex <= Len(units)
  /\ Entered(NextUnitIndex)

ClockTime(tok) ==
  LET hour == IF tok.modifier = "am"
              THEN (IF tok.hour = 12 THEN 0 ELSE tok.hour)
              ELSE (IF tok.hour = 12 THEN 12 ELSE tok.hour + 12)
  IN hour * 60 + tok.minute

\* The session for which the interval record was committed.
SessionOfRecord(r) ==
  CHOOSE c \in SessionsOf(finalSchedule) :
    c.unitCode = r.unitCode /\ c.activity = r.activity

\* C18 (clock-time ordering): for a committed session whose two time
\* texts are well formed (hour 1..12, minute 00..59, am or pm), the two
\* instants are valid, lie at the clock times of the texts (12:xxam in
\* hour 0, 12:xxpm in hour 12, other pm hours 12 later), compare as those
\* clock times do, and are equal when the two texts are the same.
C18_ClockOrder ==
  \A d \in WeekDays : \A k \in 1..Len(scheduledTimesPerDay[d]) :
    LET r == scheduledTimesPerDay[d][k]
        time == SessionOfRecord(r).time
    IN (time.start \in ClockTexts /\ time.end \in ClockTexts) =>
         /\ r.start # NaN /\ r.end # NaN
         /\ r.start = ClockTime(time.start)
         /\ r.end = ClockTime(time.end)
         /\ DateLess(r.start, r.end)
              <=> ClockTime(time.start) < ClockTime(time.end)
         /\ DateLess(r.end, r.start)
              <=> ClockTime(time.end) < ClockTime(time.start)
         /\ time.start = time.end => r.start = r.end

\* A session from 12:30pm to 1:00pm was committed: its start is the
\* earlier instant although its hour number is the larger.
C18_Witness ==
  /\ Len(scheduledTimesPerDay["MON"]) = 1
  /\ SessionOfRecord(scheduledTimesPerDay["MON"][1]).time
       = TimeRange(Tok(12, 30, "pm"), Tok(1, 0, "pm"))
  /\ DateLess(scheduledTimesPerDay["MON"][1].start,
              scheduledTimesPerDay["MON"][1].end)

\* ----------------------------------------------------------------- C19
\* The number of sessions the schedule holds for the unit at index v.
CommittedFor(v) ==
  IF units[v].unitCode \in DOMAIN finalSchedule
  THEN Len(finalSchedule[units[v].unitCode].courses)
  ELSE 0

\* The first n sessions held for the unit at index v are alternatives of
\* its first n activities, one each, in order.
OnePerActivity(v, n) ==
  /\ CommittedFor(v) = n
  /\ \A k \in 1..n :
       \E i \in 1..Len(units[v].activities[k].courses) :
         finalSchedule[units[v].unitCode].courses[k]
           = units[v].activities[k].courses[i]

RECURSIVE SumCommitted(_)
SumCommitted(v) == IF v = 0 THEN 0 ELSE CommittedFor(v) + SumCommitted(v - 1)

RECURSIVE SumActivities(_)
SumActivities(v) ==
  IF v = 0 THEN 0 ELSE Len(units[v].activities) + SumActivities(v - 1)

\* C19 (search-position invariant): whenever the activity phase stands at
\* unit u and activity a (the frame on top, a counted from 1 here), every
\* unit before u holds one committed session for each of its activities,
\* unit u holds a - 1 sessions, one for each of its first a - 1
\* activities in order, every unit after u holds none, and the sessions
\* held never outnumber the activities of all units.
C19_SearchPosition ==
  (pc = "search" /\ stack # <<>>) =>
    /\ Top.activityIndex - 1 <= Len(units[Top.unitIndex].activities)
    /\ \A v \in 1..Len(units) :
         IF v < Top.unitIndex
           THEN OnePerActivity(v, Len(units[v].activities))
         ELSE IF v = Top.unitIndex
           THEN OnePerActivity(v, Top.activityIndex - 1)
         ELSE CommittedFor(v) = 0
    /\ SumCommitted(Len(units)) <= SumActivities(Len(units))

\* The search stands at the second activity of the second unit: the
\* first unit holds its session, the second holds one.
C19_Witness ==
  /\ pc = "search"
  /\ stack # <<>>
  /\ Top.unitIndex = 2
  /\ Top.activityIndex = 2
  /\ Len(units[2].activities) = 2
  /\ CommittedFor(1) = 1
  /\ CommittedFor(2) = 1

\* ----------------------------------------------------------------- C20
\* C20 (full unwinding on failure): when filterCourseList returns null,
\* the index is empty on all five days, every entry of the schedule has
\* an empty session list, and the entries are those of the units the
\* search entered, the first unit among them.
C20_Unwound ==
  (Finished /\ Outcome = ReturnedNull) =>
    /\ DOMAIN scheduledTimesPerDay = WeekDays
    /\ \A d \in WeekDays : scheduledTimesPerDay[d] = <<>>
    /\ \A code \in DOMAIN finalSchedule : finalSchedule[code].courses = <<>>
    /\ DOMAIN finalSchedule \subseteq
         { units[v].unitCode : v \in 1..Len(units) }
    /\ units[1].unitCode \in DOMAIN finalSchedule

\* Null was returned after the search had entered two units, committed a
\* session and taken it back: both entries remain, both empty.
C20_Witness ==
  /\ Finished
  /\ Outcome = ReturnedNull
  /\ Cardinality(DOMAIN finalSchedule) = 2
  /\ \A d \in WeekDays : scheduledTimesPerDay[d] = <<>>

\* ----------------------------------------------------------------- C21
\* The unit list scheduleUnits of part_000 received from filterCourseList.
OrderedUnits ==
  SortUnits([i \in 1..Len(courseList) |-> MakeUnit(courseList[i])], <<>>)

\* The run of the module-level scheduleUnits on that list, from an empty
\* index and an empty schedule.
ModuleRun == scheduleUnits(1, RunOn(OrderedUnits))

\* C21 (variant equivalence): on the same ordered unit list, with the same
\* parser and from empty state, the closure-based scheduleUnits of
\* part_000 (the steps of the model) and the module-level scheduleUnits of
\* recursiveFunctions.tsx (ModuleRun) make the same sequence of commits
\* and uncommits, end the same way (true, false, or the same error) and
\* leave the same schedule, the same index and the same order of
\* activities.
C21_VariantsAgree ==
  Finished =>
    LET module == ModuleRun
    IN /\ log = module.log
       /\ finalSchedule = module.finalSchedule
       /\ scheduledTimesPerDay = module.scheduledTimesPerDay
       /\ units = module.units
       /\ Outcome.tag = "schedule" <=> module.result = "true"
       /\ Outcome.tag = "null" <=> module.result = "false"
       /\ Outcome.tag = "error" <=> module.result = "throw"
       /\ Outcome.error = module.error

\* Both variants returned true after committing, uncommitting across a
\* unit boundary and committing again.
C21_Witness ==
  /\ Finished
  /\ Outcome.tag = "schedule"
  /\ ModuleRun.result = "true"
  /\ Cardinality(DOMAIN finalSchedule) = 2
  /\ \E k \in 1..Len(log) : log[k].op = "uncommit"
  /\ log = ModuleRun.log

\* ----------------------------------------------------------------- C22
\* The search is about to try a candidate whose day is none of the five.
TriesOffWeek == TriesCandidate /\ ~OnWeekDay(CandidateOf(Top))

\* C22 (weekday-only index): after every step the keys of the index are
\* exactly MON, TUE, WED, THU, FRI and no session held by the schedule
\* lies on another day; a step that tries a candidate of another day
\* commits nothing and ends the call with an error, not with a schedule
\* and not with null.
C22_WeekdayOnly ==
  [][/\ DOMAIN scheduledTimesPerDay' = WeekDays
     /\ \A c \in SessionsOf(finalSchedule') : OnWeekDay(c)
     /\ TriesOffWeek =>
          /\ pc' = "idle"
          /\ Len(outcomes') = Len(outcomes) + 1
          /\ outcomes'[Len(outcomes')].tag = "error"
          /\ UNCHANGED <<finalSchedule, scheduledTimesPerDay, log>>]_vars

\* A Saturday candidate was tried after a weekday session had been
\* committed: the call ended with the TypeError and the Saturday session
\* is not in the schedule.
C22_Witness ==
  /\ Finished
  /\ Outcome = Thrown(NotIterable)
  /\ SessionsOf(finalSchedule) # {}
  /\ \E c \in AllCourses : ~OnWeekDay(c) /\ c \notin SessionsOf(finalSchedule)
  /\ DOMAIN scheduledTimesPerDay = WeekDays

====
